---- MODULE Spec2Model ----
(***************************************************************************)
(* ct_secretsd: the proxy process controller (proxy_controller.py), the    *)
(* /proxy/* request handlers that drive it (app.py) and the two secret     *)
(* storage backends (storage.py).                                          *)
(***************************************************************************)
EXTENDS Integers, FiniteSets, Sequences, TLC

----------------------------------------------------------------------------
(* Bounds of the model *)

\* encryption keys generated for one storage directory in one run
MaxKeys == 2
\* children the daemon may spawn in one run (pids are 1..MaxChildren)
MaxChildren == 2
\* HTTP requests handled in one run of the request-level specification
MaxReqs == 2
\* credential-store probes run in one process
MaxProbes == 2
\* connect attempts of one _wait_for_port call before its deadline
MaxPolls == 2
\* KeyringStorage calls in progress at a time
MaxCalls == 2

----------------------------------------------------------------------------
(* Values *)

\* Optional[subprocess.Popen] = None
NoProc == 0
Pids == 1..MaxChildren
\* ProxyConfig.port: the default and one other port
Ports == {3000, 3001}
\* the env overlay handed to start (app.py adds DEBUG=1 or not)
Envs == {"plain", "debug"}
\* Optional[ProxyProcessInfo] = None
NoInfo == [pid |-> 0, port |-> 0, started_at |-> 0]
ProxyProcessInfo(pid, port, started_at) ==
    [pid |-> pid, port |-> port, started_at |-> started_at]

VARIABLES
    _proc,      \* ProxyController._proc: the Popen handle (a pid) or NoProc
    _info,      \* ProxyController._info
    alive,      \* OS: the spawned children still running (neither exited nor
                \* delivered a SIGKILL); for the held child: poll() is None
    bound,      \* OS: port -> the child listening on it, or NoProc
    spawnPort,  \* pid -> the port argument of the start call that spawned it
    sent,       \* OS: the signals delivered so far, as <<pid, signal>>
    nextPid,    \* the pid the next Popen gets
    now,        \* time.time()
    last,       \* outcome of the latest ProxyController call or property read
    returned,   \* what start returned last, NoInfo after a stop (history)
    unconfirmed,\* the children a stop dropped while returning false (history)
    reqs,       \* request id -> the state of that HTTP request
    vault,      \* OS keyring, service "claude-throne": account -> password
    key_file,   \* contents of {storage_dir}/.encryption_key
    _encryption_key,  \* EncryptedFileStorage._encryption_key of the instance
    files,      \* {storage_dir}/{provider_id}.key: provider -> file contents
    generated,  \* how many keys Fernet.generate_key() has produced
    _storage_instance,  \* storage.py: the backend the process uses
    slast,      \* outcome of the latest storage call
    test_entry, \* OS keyring, service "claude-throne-test": the entry exists
    probes,     \* how many times the credential-store probe has run (history)
    fellback,   \* a probe has failed in this process (history)
    first,      \* the backend get_secret_storage returned first (history)
    start_pc,   \* where a start call in progress is: "idle" or "polling"
    deadline,   \* _wait_for_port: the deadline of the start call in progress
    pipe,       \* OS: pid -> how full the stdout/stderr pipe of the child is
    kcalls      \* KeyringStorage calls in progress: call id -> its state

ctlVars == <<_proc, _info, alive, bound, spawnPort, sent, nextPid, now, last,
             returned, unconfirmed>>
storeVars == <<vault, key_file, _encryption_key, files, generated,
               _storage_instance, slast>>
selVars == <<test_entry, probes, fellback, first>>
fineVars == <<start_pc, deadline, pipe, kcalls>>
vars == <<_proc, _info, alive, bound, spawnPort, sent, nextPid, now, last,
          returned, unconfirmed, reqs, vault, key_file, _encryption_key,
          files, generated, _storage_instance, slast,
         test_entry, probes, fellback, first, start_pc, deadline, pipe, kcalls>>

----------------------------------------------------------------------------
(* ProxyController *)

\* the record kept of a finished controller call
\* op: the method; path: the branch it took; raised: it ended in an exception;
\* info: the ProxyProcessInfo it returned; flag: the bool it returned;
\* spawned: the child it spawned
Outcome(op, path, raised, value, flag, child) ==
    [op |-> op, path |-> path, raised |-> raised, info |-> value,
     flag |-> flag, spawned |-> child]

NoCall == Outcome("none", "none", FALSE, NoInfo, FALSE, NoProc)

\* Popen.poll() is None
poll_is_None(p) == p \in alive

is_running_cached == _proc # NoProc
is_running_inverted == _proc # NoProc /\ ~poll_is_None(_proc)
\* ProxyController.is_running
is_running == _proc # NoProc /\ poll_is_None(_proc)

\* ProxyController.info
info == IF is_running THEN _info ELSE NoInfo

\* the listeners once child c has exited
Unbind(b, c) == [p \in Ports |-> IF b[p] = c THEN NoProc ELSE b[p]]

\* _wait_for_port: a connect to 127.0.0.1:port succeeded before the deadline.
\* listened: the new child opened the port at some moment of the window;
\* b: the listeners there were when the window began.
_wait_for_port(b, port, listened) == listened \/ b[port] # NoProc

\* Popen.terminate() / Popen.kill() on a child that has not exited: os.kill
\* raises and nothing is delivered, or the signal is delivered
Deliver(c, sig, raises) == IF raises THEN sent ELSE sent \cup {<<c, sig>>}

\* lines 65-69: the port did not open; terminate the child, swallow, raise.
\* exited: the child has exited by itself; dies: it exits on the SIGTERM
start_timeout(c, exited, raises, dies) ==
    /\ _proc' = c
    /\ _info' = _info
    /\ sent' = IF exited THEN sent ELSE Deliver(c, "TERM", raises)
    /\ alive' = IF exited \/ (~raises /\ dies) THEN alive ELSE alive \cup {c}
    /\ bound' = bound
    /\ last' = Outcome("start", "timeout", TRUE, NoInfo, FALSE, c)
    /\ UNCHANGED <<returned, unconfirmed>>

\* lines 71-72: the port opened; record and return the info
start_record(c, port, listened, exited) ==
    /\ _proc' = c
    /\ _info' = ProxyProcessInfo(c, port, now)
    /\ sent' = sent
    /\ alive' = IF exited THEN alive ELSE alive \cup {c}
    /\ bound' = IF listened /\ ~exited THEN [bound EXCEPT ![port] = c] ELSE bound
    /\ last' = Outcome("start", "started", FALSE, _info', FALSE, c)
    /\ returned' = _info'
    /\ unconfirmed' = unconfirmed

\* ProxyController.start(env, port)
start(env, port) ==
    IF is_running
    THEN \* lines 46-47
         /\ last' = Outcome("start", "already_running", FALSE, _info, FALSE, NoProc)
         /\ returned' = _info
         /\ UNCHANGED <<_proc, _info, alive, bound, spawnPort, sent, nextPid, now,
                        unconfirmed>>
    ELSE \/ \* line 53: Popen raises (no node executable), nothing is assigned
            /\ last' = Outcome("start", "popen_error", TRUE, NoInfo, FALSE, NoProc)
            /\ UNCHANGED <<_proc, _info, alive, bound, spawnPort, sent, nextPid, now,
                           returned, unconfirmed>>
         \/ \* lines 53-72: the child is spawned and the port polled
            /\ nextPid <= MaxChildren
            /\ nextPid' = nextPid + 1
            /\ now' = now + 1
            /\ spawnPort' = [spawnPort EXCEPT ![nextPid] = port]
            /\ \E listened, exited \in BOOLEAN :
                  \* the child can listen only on a free port
                  /\ listened => bound[port] = NoProc
                  /\ IF _wait_for_port(bound, port, listened)
                     THEN start_record(nextPid, port, listened, exited)
                     ELSE \E raises, dies \in BOOLEAN :
                              /\ exited => (~raises /\ ~dies)
                              /\ raises => ~dies
                              /\ start_timeout(nextPid, exited, raises, dies)

\* line 75: not self._proc
stop_is_idle == _proc = NoProc

stop_keeps_info == _proc' = NoProc /\ _info' = _info
\* lines 87-88
stop_clears == _proc' = NoProc /\ _info' = NoInfo

stop_result_true(exitSeen) == TRUE
\* line 86: stopped = self._proc.poll() is not None
stop_result(exitSeen) == exitSeen

\* lines 77-89 on a held child c.
\* termRaises: terminate() raised; inTime: the child exited within wait(5);
\* killRaises: kill() raised; reaped: the killed child's exit is already
\* visible to poll() at line 86
stop_held(c, termRaises, inTime, killRaises, reaped) ==
    LET exited == c \notin alive
        graceful == exited \/ (~termRaises /\ inTime)
        afterTerm == IF exited THEN sent ELSE Deliver(c, "TERM", termRaises)
        afterKill == IF graceful THEN afterTerm
                     ELSE IF killRaises THEN afterTerm
                     ELSE afterTerm \cup {<<c, "KILL">>}
        dead == graceful \/ ~killRaises
        exitSeen == graceful \/ (~killRaises /\ reaped)
        path == IF exited THEN "already_exited"
                ELSE IF graceful THEN "graceful"
                ELSE IF killRaises THEN "kill_error"
                ELSE "killed"
    IN  /\ sent' = afterKill
        /\ alive' = IF dead THEN alive \ {c} ELSE alive
        /\ bound' = IF dead THEN Unbind(bound, c) ELSE bound
        /\ stop_clears
        /\ last' = Outcome("stop", path, FALSE, NoInfo, stop_result(exitSeen), NoProc)
        /\ unconfirmed' = IF last'.flag THEN unconfirmed ELSE unconfirmed \cup {c}

stop_idle_false ==
    /\ last' = Outcome("stop", "idle", FALSE, NoInfo, FALSE, NoProc)
    /\ UNCHANGED <<_proc, _info, alive, bound, sent, unconfirmed>>
\* lines 75-76: return True
stop_idle ==
    /\ last' = Outcome("stop", "idle", FALSE, NoInfo, TRUE, NoProc)
    /\ UNCHANGED <<_proc, _info, alive, bound, sent, unconfirmed>>

\* ProxyController.stop()
stop ==
    /\ IF stop_is_idle
       THEN stop_idle
       ELSE \E termRaises, inTime, killRaises, reaped \in BOOLEAN :
                stop_held(_proc, termRaises, inTime, killRaises, reaped)
    /\ returned' = NoInfo
    /\ UNCHANGED <<spawnPort, nextPid, now>>

\* a read of the properties is_running and info (as proxy_status does)
read_status ==
    /\ last' = Outcome("status", "read", FALSE, info, is_running, NoProc)
    /\ UNCHANGED <<_proc, _info, alive, bound, spawnPort, sent, nextPid, now,
                   returned, unconfirmed>>

\* the supervised program exits by itself (a crash, or a signal taking effect)
child_exit(c) ==
    /\ c \in alive
    /\ alive' = alive \ {c}
    /\ bound' = Unbind(bound, c)
    /\ last' = NoCall
    /\ unconfirmed' = unconfirmed \ {c}
    /\ UNCHANGED <<_proc, _info, spawnPort, sent, nextPid, now, returned>>

----------------------------------------------------------------------------
(* ProxyController.start, one step of its port polling at a time *)

tick_frozen(t) == t
\* time.time() after a failed connect and time.sleep(0.1), line 42
tick(t) == t + 1

\* line 35: time.time() < deadline
time_left == now < deadline

\* lines 46-60: the no-op return, or Popen and the deadline of line 34
start_begin(env, port) ==
    /\ start_pc = "idle"
    /\ IF is_running
       THEN /\ last' = Outcome("start", "already_running", FALSE, _info, FALSE,
                               NoProc)
            /\ returned' = _info
            /\ UNCHANGED <<_proc, alive, spawnPort, nextPid, start_pc, deadline>>
       ELSE \/ /\ last' = Outcome("start", "popen_error", TRUE, NoInfo, FALSE,
                                  NoProc)
               /\ UNCHANGED <<_proc, alive, spawnPort, nextPid, start_pc, deadline,
                              returned>>
            \/ /\ nextPid <= MaxChildren
               /\ nextPid' = nextPid + 1
               /\ _proc' = nextPid
               /\ alive' = alive \cup {nextPid}
               /\ spawnPort' = [spawnPort EXCEPT ![nextPid] = port]
               /\ deadline' = now + MaxPolls
               /\ start_pc' = "polling"
               /\ last' = NoCall
               /\ returned' = returned
    /\ UNCHANGED <<_info, bound, sent, now, unconfirmed>>

\* lines 36-40 and 71-72: the connect succeeds, the info is recorded
poll_connect ==
    /\ start_pc = "polling"
    /\ time_left
    /\ bound[spawnPort[_proc]] # NoProc
    /\ _info' = ProxyProcessInfo(_proc, spawnPort[_proc], deadline - MaxPolls)
    /\ last' = Outcome("start", "started", FALSE, _info', FALSE, _proc)
    /\ returned' = _info'
    /\ start_pc' = "idle"
    /\ UNCHANGED <<_proc, alive, bound, spawnPort, sent, nextPid, now,
                   unconfirmed, deadline>>

\* lines 41-42: the connect fails, sleep
poll_sleep ==
    /\ start_pc = "polling"
    /\ time_left
    /\ bound[spawnPort[_proc]] = NoProc
    /\ now' = tick(now)
    /\ UNCHANGED <<_proc, _info, alive, bound, spawnPort, sent, nextPid, last,
                   returned, unconfirmed, start_pc, deadline>>

\* lines 43 and 63-69: the deadline passed; terminate the child and raise
poll_expire(raises, dies) ==
    /\ start_pc = "polling"
    /\ ~time_left
    /\ raises => ~dies
    /\ sent' = IF _proc \in alive THEN Deliver(_proc, "TERM", raises) ELSE sent
    /\ alive' = IF ~raises /\ dies THEN alive \ {_proc} ELSE alive
    /\ bound' = IF ~raises /\ dies THEN Unbind(bound, _proc) ELSE bound
    /\ last' = Outcome("start", "timeout", TRUE, NoInfo, FALSE, _proc)
    /\ start_pc' = "idle"
    /\ UNCHANGED <<_proc, _info, spawnPort, nextPid, now, returned,
                   unconfirmed, deadline>>

\* the child begins to listen on the port it was given
child_listens(c) ==
    /\ c \in alive
    /\ bound[spawnPort[c]] = NoProc
    /\ bound' = [bound EXCEPT ![spawnPort[c]] = c]
    /\ UNCHANGED <<_proc, _info, alive, spawnPort, sent, nextPid, now, last,
                   returned, unconfirmed, start_pc, deadline>>

----------------------------------------------------------------------------
(* The stdout/stderr pipes of the child, lines 57-58 *)

\* how much an OS pipe buffers before a write to it blocks (in writes)
PipeCapacity == 2

\* the child writes to its stdout or stderr; the write blocks while the pipe
\* is full.  No controller code reads the pipes, so nothing drains them.
child_writes(c) ==
    /\ c \in alive
    /\ pipe[c] < PipeCapacity
    /\ pipe' = [pipe EXCEPT ![c] = @ + 1]
    /\ UNCHANGED <<ctlVars, start_pc, deadline>>

----------------------------------------------------------------------------
(* Values of the storage backends *)

\* provider ids of the registry (providers.py)
Providers == {"openrouter", "custom"}
ApiKeys == {"sk-1", "sk-2"}

\* Optional[Dict[str, str]]: a dict is the set of its items
NoMeta == [some |-> FALSE, dict |-> {}]
Dict(d) == [some |-> TRUE, dict |-> d]
Dicts == {{}, {<<"tier", "free">>}, {<<"tier", "pro">>}}
Metas == {NoMeta} \cup {Dict(d) : d \in Dicts}
\* Python truth value of `metadata`
Truthy(m) == m.some /\ m.dict # {}

\* Optional[str]
NoStr == [some |-> FALSE, str |-> ""]
Str(x) == [some |-> TRUE, str |-> x]

\* json.dumps of a Dict[str, str]
json_dumps(d) ==
    IF d = {} THEN "{}"
    ELSE IF d = {<<"tier", "free">>} THEN "{\"tier\": \"free\"}"
    ELSE "{\"tier\": \"pro\"}"
\* json.loads of a string: the dict, or no dict (JSONDecodeError)
json_loads(x) ==
    IF \E d \in Dicts : json_dumps(d) = x
    THEN Dict(CHOOSE d \in Dicts : json_dumps(d) = x)
    ELSE NoMeta

_get_account_name_shared(p) == <<"openrouter", "api-key">>
\* keyring accounts of a provider
_get_account_name(p) == <<p, "api-key">>
metadata_account(p) == <<p, "metadata">>
Accounts == {_get_account_name(p) : p \in Providers}
              \cup {metadata_account(p) : p \in Providers}

\* Fernet keys: generate_key() yields a fresh one each time
KeyNames == <<"K1", "K2", "K3", "K4">>
FernetKey(n) == KeyNames[n]
\* Fernet(key) accepts the key (32 url-safe base64-encoded bytes)
ValidKey(k) == \E n \in DOMAIN KeyNames : KeyNames[n] = k
\* no key file / no instance, and bytes that are no Fernet key
NoKey == "<none>"
Garbage == "<garbage>"

\* a file that does not exist, and the contents of one that does
NoFile == [exists |-> FALSE]
\* json.dumps({"api_key": k, "metadata": d})
Doc(k, d) == [json |-> TRUE, api_key |-> k, metadata |-> d]
\* Fernet(key).encrypt(plain): an authenticated token
Token(key, plain) == [exists |-> TRUE, mac |-> key, plain |-> plain]
EmptyFile == [exists |-> TRUE, mac |-> NoKey, plain |-> Doc("", {})]
\* plaintext that json.loads rejects
NotJson == [json |-> FALSE, api_key |-> "", metadata |-> {}]
\* a Fernet key that is not the key of this storage directory
ForeignKey == "K-foreign"
\* what the bytes of a provider file can be altered to behind the daemon's
\* back: a token whose bytes were tampered with (its MAC no longer
\* verifies), a truncated file, a token made with another key, and a token
\* of the directory's key over plaintext that is not JSON
AlteredContents(key) ==
    {Token(Garbage, Doc("sk-forged", {})), EmptyFile,
     Token(ForeignKey, Doc("sk-forged", {})), Token(key, NotJson)}

\* a KeyringStorage call in progress.  op: "store" or "delete";
\* pc: the vault call it makes next ("metadata", "api_key") or "done"
KCallIds == 1..MaxCalls
KCall(op, p, k, m, at, ok) ==
    [op |-> op, provider |-> p, api_key |-> k, metadata |-> m, pc |-> at,
     ok |-> ok]
IdleCall == KCall("none", "", "", NoMeta, "idle", FALSE)

\* the record kept of a finished storage call
\* raised: the call raised to its caller instead of returning;
\* value: what get_key returned, and for a delete the key held before it;
\* fault: the vault call that failed during a KeyringStorage.delete_key;
\* listed: what list_providers returned
SOutcome(op, b, p, k, m, ok, value) ==
    [op |-> op, backend |-> b, provider |-> p, api_key |-> k, metadata |-> m,
     ok |-> ok, value |-> value, raised |-> FALSE, fault |-> "none",
     listed |-> {}]
NoSCall == SOutcome("none", "none", "", "", NoMeta, FALSE, NoStr)

\* the exception class a failing vault call raises: a KeyringError, or for
\* the fault named "..._other" an exception that is no KeyringError
keyring_exc(fault) ==
    IF fault = "metadata_other" THEN "OSError" ELSE "KeyringError"
\* the except clauses of the KeyringStorage methods (lines 98-103, 122-127,
\* 161-166) and of the EncryptedFileStorage methods (247, 268-273, 293)
KeyringClauses == {"KeyringError", "Exception"}
FileClauses == {"FileNotFoundError", "InvalidToken", "JSONDecodeError",
                "Exception"}
catches_named_only(clauses, exc) == exc \in clauses
\* a try with these except clauses handles exc: every class is an Exception
catches(clauses, exc) == exc \in clauses \/ "Exception" \in clauses
\* the outcome of a call in which exc was raised or not
Finished(out, failed, clauses, exc) ==
    IF failed /\ ~catches(clauses, exc)
    THEN [out EXCEPT !.raised = TRUE, !.ok = FALSE]
    ELSE out

----------------------------------------------------------------------------
(* KeyringStorage *)

\* keyring.set_password(service, account, password)
set_password(v, account, password) == [v EXCEPT ![account] = Str(password)]

\* KeyringStorage.store_key, lines 73-93: the vault it leaves.
\* fault: the set_password call that raises ("none", "metadata", "api_key");
\* the metadata call can fail only when it is made
KeyringStoreFaults(m) ==
    IF Truthy(m) THEN {"none", "metadata", "api_key"} ELSE {"none", "api_key"}
keyring_store(v, p, k, m, fault) ==
    LET withMeta == IF Truthy(m) /\ fault # "metadata"
                    THEN set_password(v, metadata_account(p), json_dumps(m.dict))
                    ELSE v
    IN  IF fault = "none" THEN set_password(withMeta, _get_account_name(p), k)
        ELSE withMeta

\* KeyringStorage.store_key returns True
keyring_store_ok(fault) == fault = "none"

\* KeyringStorage.get_key, lines 105-127
keyring_get_key(v, p, fault) ==
    IF fault THEN NoStr ELSE v[_get_account_name(p)]

\* KeyringStorage.has_key, lines 129-132
keyring_has_key(v, p, fault) == keyring_get_key(v, p, fault).some

\* keyring.delete_password raises PasswordDeleteError for a missing entry
delete_raises(v, account) == ~v[account].some
delete_password(v, account) == [v EXCEPT ![account] = NoStr]

\* KeyringStorage.delete_key, lines 134-166: the vault it leaves.
\* fault: the vault call that fails for another reason: "none";
\* "metadata": a KeyringError deleting the metadata (swallowed, line 147);
\* "metadata_other": another exception there; "api_key"
KeyringDeleteFaults == {"none", "metadata", "metadata_other", "api_key"}
keyring_delete_api_key_only(v, p, fault) ==
    IF fault \in {"metadata_other", "api_key"}
          \/ delete_raises(v, _get_account_name(p))
    THEN v
    ELSE delete_password(v, _get_account_name(p))
keyring_delete(v, p, fault) ==
    LET metaGone == IF fault = "metadata" \/ delete_raises(v, metadata_account(p))
                    THEN v
                    ELSE delete_password(v, metadata_account(p))
    IN  IF fault = "metadata_other" THEN v
        ELSE IF fault = "api_key" \/ delete_raises(metaGone, _get_account_name(p))
        THEN metaGone
        ELSE delete_password(metaGone, _get_account_name(p))

\* KeyringStorage.delete_key returns True
keyring_delete_ok(v, p, fault) ==
    /\ fault \notin {"metadata_other", "api_key"}
    /\ ~delete_raises(v, _get_account_name(p))

\* the SecretRecord the vault holds for p
keyring_record(v, p) ==
    [api_key |-> v[_get_account_name(p)],
     metadata |-> IF v[metadata_account(p)].some
                  THEN json_loads(v[metadata_account(p)].str).dict
                  ELSE {}]

\* KeyringStorage.store_key / delete_key taken one awaited vault call at a
\* time (each `await self._run_sync(...)` lets other requests run).
\* The call is invoked: lines 73-74, 136-138
keyring_call_begin(c, op, p, k, m) ==
    /\ kcalls[c].pc = "idle"
    /\ kcalls' = [kcalls EXCEPT ![c] = KCall(op, p, k, m, "metadata", FALSE)]
    /\ vault' = vault

\* lines 77-85 (store) and 141-149 (delete): the metadata entry
keyring_call_metadata(c) ==
    LET call == kcalls[c]
        account == metadata_account(call.provider)
    IN  /\ call.pc = "metadata"
        /\ vault' = IF call.op = "store"
                    THEN IF Truthy(call.metadata)
                         THEN set_password(vault, account,
                                           json_dumps(call.metadata.dict))
                         ELSE vault
                    ELSE IF delete_raises(vault, account) THEN vault
                         ELSE delete_password(vault, account)
        /\ kcalls' = [kcalls EXCEPT ![c].pc = "api_key"]

\* lines 88-96 (store) and 152-159 (delete): the api-key entry, and return
keyring_call_api_key(c) ==
    LET call == kcalls[c]
        account == _get_account_name(call.provider)
    IN  /\ call.pc = "api_key"
        /\ vault' = IF call.op = "store"
                    THEN set_password(vault, account, call.api_key)
                    ELSE IF delete_raises(vault, account) THEN vault
                         ELSE delete_password(vault, account)
        /\ kcalls' = [kcalls EXCEPT
                         ![c].pc = "done",
                         ![c].ok = (call.op = "store"
                                      \/ ~delete_raises(vault, account))]

\* the vault after the call has run alone, from its first line to its last
keyring_call_alone(v, call) ==
    IF call.op = "store"
    THEN keyring_store(v, call.provider, call.api_key, call.metadata, "none")
    ELSE keyring_delete(v, call.provider, "none")

----------------------------------------------------------------------------
(* EncryptedFileStorage *)

\* _encrypt_data: Fernet(key) raises ValueError for a malformed key
encrypt_raises(key) == ~ValidKey(key)
_encrypt_data(key, plain) == Token(key, plain)

decrypt_never_raises(key, blob) == FALSE
\* _decrypt_data raises (InvalidToken, or ValueError for a malformed key)
decrypt_raises(key, blob) == ~ValidKey(key) \/ blob.mac # key
_decrypt_data(key, blob) == blob.plain

\* EncryptedFileStorage.store_key, lines 225-245: the files it leaves.
\* fault: the file-system call that raises ("none", "open", "write", "chmod")
FileStoreFaults == {"none", "open", "write", "chmod"}
file_store(fs, key, p, k, m, fault) ==
    IF encrypt_raises(key) \/ fault = "open" THEN fs
    ELSE IF fault = "write" THEN [fs EXCEPT ![p] = EmptyFile]
    ELSE [fs EXCEPT ![p] =
             _encrypt_data(key, Doc(k, IF Truthy(m) THEN m.dict ELSE {}))]

\* EncryptedFileStorage.store_key returns True
file_store_ok(key, fault) == ~encrypt_raises(key) /\ fault = "none"

\* EncryptedFileStorage.get_key, lines 251-273.  fault: the read raises
file_get_key(fs, key, p, fault) ==
    IF ~fs[p].exists \/ fault THEN NoStr
    ELSE IF decrypt_raises(key, fs[p]) THEN NoStr
    ELSE IF ~_decrypt_data(key, fs[p]).json THEN NoStr
    ELSE Str(_decrypt_data(key, fs[p]).api_key)

\* EncryptedFileStorage.get_key, lines 259-263: reading, decrypting or
\* parsing the file of p raises, and the exception class it raises
file_get_raises(fs, key, p) ==
    fs[p].exists /\ (decrypt_raises(key, fs[p]) \/ ~_decrypt_data(key, fs[p]).json)
file_get_exc(fs, key, p) ==
    IF ~ValidKey(key) THEN "ValueError"
    ELSE IF decrypt_raises(key, fs[p]) THEN "InvalidToken"
    ELSE "JSONDecodeError"

\* EncryptedFileStorage.has_key, lines 275-279
file_has_key(fs, p) == fs[p].exists

\* EncryptedFileStorage.delete_key, lines 281-295.  fault: os.remove raises
file_delete_keeps(fs, p, fault) == fs
file_delete(fs, p, fault) ==
    IF fs[p].exists /\ ~fault THEN [fs EXCEPT ![p] = NoFile] ELSE fs

\* EncryptedFileStorage.delete_key returns True
file_delete_ok(fs, p, fault) == ~(fs[p].exists /\ fault)

\* a file name of the storage directory: Path.stem and Path.suffix
FileName(stem, suffix) == [stem |-> stem, suffix |-> suffix]
\* _get_key_file, lines 209-211: {storage_dir}/{provider_id}.key
_get_key_file(p) == FileName(p, ".key")
\* line 188: {storage_dir}/.encryption_key, a name without suffix
KeyFileName == FileName(".encryption_key", "")
\* the names in storage_dir
listdir(fs, kf) ==
    {_get_key_file(p) : p \in {q \in Providers : fs[q].exists}}
        \cup (IF kf # NoKey THEN {KeyFileName} ELSE {})
glob_all(names) == names
\* storage_dir.glob("*.key")
glob_key(names) == {n \in names : n.suffix = ".key"}
\* EncryptedFileStorage.list_providers, lines 297-307.  fault: glob raises
file_list_providers(fs, kf, fault) ==
    IF fault THEN {} ELSE {n.stem : n \in glob_key(listdir(fs, kf))}
\* KeyringStorage.list_providers, lines 168-174
keyring_list_providers == {}

\* the SecretRecord readable from the file of p with the instance's key
file_record(fs, key, p) ==
    IF fs[p].exists /\ ~decrypt_raises(key, fs[p]) /\ fs[p].plain.json
    THEN [api_key |-> Str(fs[p].plain.api_key), metadata |-> fs[p].plain.metadata]
    ELSE [api_key |-> NoStr, metadata |-> {}]

\* EncryptedFileStorage.__init__ / _get_or_create_key, lines 180-207.
\* fault: the file-system call that raises ("none", "read", "write", "chmod")
ConstructFaults == {"none", "read", "write", "chmod"}
_get_or_create_key_always_new(fault) ==
    /\ fault = "none"
    /\ generated < MaxKeys
    /\ generated' = generated + 1
    /\ key_file' = FernetKey(generated')
    /\ _encryption_key' = key_file'
_get_or_create_key(fault) ==
    IF key_file # NoKey
    THEN \* lines 196-198: whatever bytes the file holds
         /\ fault \in {"none", "read"}
         /\ _encryption_key' = IF fault = "read" THEN NoKey ELSE key_file
         /\ UNCHANGED <<key_file, generated>>
    ELSE \* lines 200-204
         /\ fault \in {"none", "write", "chmod"}
         /\ generated < MaxKeys
         /\ generated' = generated + 1
         /\ key_file' = IF fault = "write" THEN Garbage
                        ELSE FernetKey(generated')
         /\ _encryption_key' = IF fault = "none" THEN key_file' ELSE NoKey

----------------------------------------------------------------------------
(* One backend, as the daemon uses it *)

store_key(b, p, k, m) ==
    /\ IF b = "KeyringStorage"
       THEN \E fault \in KeyringStoreFaults(m) :
               /\ vault' = keyring_store(vault, p, k, m, fault)
               /\ slast' = Finished(SOutcome("store", b, p, k, m,
                                             keyring_store_ok(fault), NoStr),
                                    fault # "none", KeyringClauses,
                                    keyring_exc(fault))
               /\ files' = files
       ELSE \E fault \in FileStoreFaults :
               /\ files' = file_store(files, _encryption_key, p, k, m, fault)
               /\ slast' = Finished(SOutcome("store", b, p, k, m,
                                        file_store_ok(_encryption_key, fault),
                                        NoStr),
                                    ~file_store_ok(_encryption_key, fault),
                                    FileClauses,
                                    IF encrypt_raises(_encryption_key)
                                    THEN "ValueError" ELSE "OSError")
               /\ vault' = vault
    /\ UNCHANGED <<key_file, _encryption_key, generated, _storage_instance>>

get_key(b, p) ==
    /\ \E fault \in BOOLEAN :
          slast' = IF b = "KeyringStorage"
                   THEN Finished(SOutcome("get", b, p, "", NoMeta, TRUE,
                                          keyring_get_key(vault, p, fault)),
                                 fault, KeyringClauses, "KeyringError")
                   ELSE Finished(SOutcome("get", b, p, "", NoMeta, TRUE,
                                    file_get_key(files, _encryption_key, p, fault)),
                                 fault \/ file_get_raises(files, _encryption_key, p),
                                 FileClauses,
                                 IF fault THEN "OSError"
                                 ELSE file_get_exc(files, _encryption_key, p))
    /\ UNCHANGED <<vault, files, key_file, _encryption_key, generated,
                   _storage_instance>>

has_key(b, p) ==
    /\ \E fault \in BOOLEAN :
          slast' = SOutcome("has", b, p, "", NoMeta,
                     IF b = "KeyringStorage"
                     THEN keyring_has_key(vault, p, fault)
                     ELSE file_has_key(files, p),
                     NoStr)
    /\ UNCHANGED <<vault, files, key_file, _encryption_key, generated,
                   _storage_instance>>

list_providers(b) ==
    /\ \E fault \in BOOLEAN :
          slast' = [SOutcome("list", b, "", "", NoMeta, ~fault, NoStr)
                      EXCEPT !.listed =
                         IF b = "KeyringStorage" THEN keyring_list_providers
                         ELSE file_list_providers(files, key_file, fault)]
    /\ UNCHANGED <<vault, files, key_file, _encryption_key, generated,
                   _storage_instance>>

delete_key(b, p) ==
    /\ IF b = "KeyringStorage"
       THEN \E fault \in KeyringDeleteFaults :
               /\ vault' = keyring_delete(vault, p, fault)
               /\ slast' = Finished([SOutcome("delete", b, p, "", NoMeta,
                                       keyring_delete_ok(vault, p, fault),
                                       keyring_get_key(vault, p, FALSE))
                                        EXCEPT !.fault = fault],
                                    ~keyring_delete_ok(vault, p, fault),
                                    KeyringClauses, keyring_exc(fault))
               /\ files' = files
       ELSE \E fault \in BOOLEAN :
               /\ files' = file_delete(files, p, fault)
               /\ slast' = Finished(SOutcome("delete", b, p, "", NoMeta,
                                       file_delete_ok(files, p, fault),
                                       file_get_key(files, _encryption_key,
                                                    p, FALSE)),
                                    ~file_delete_ok(files, p, fault),
                                    FileClauses, "OSError")
               /\ vault' = vault
    /\ UNCHANGED <<key_file, _encryption_key, generated, _storage_instance>>

\* the key file is lost or overwritten behind the daemon's back
key_file_damaged(contents) ==
    /\ key_file # contents
    /\ key_file' = contents
    /\ slast' = NoSCall
    /\ UNCHANGED <<vault, files, _encryption_key, generated, _storage_instance>>

\* the bytes of the stored file of p are altered behind the daemon's back
file_altered(p, contents) ==
    /\ files[p].exists
    /\ files[p] # contents
    /\ files' = [files EXCEPT ![p] = contents]
    /\ slast' = NoSCall
    /\ UNCHANGED <<vault, key_file, _encryption_key, generated,
                   _storage_instance>>

\* the daemon is started again over the same storage directory
construct(fault) ==
    /\ _storage_instance = "EncryptedFileStorage"
    /\ _get_or_create_key(fault)
    /\ slast' = [SOutcome("construct", "EncryptedFileStorage", "", "", NoMeta,
                          _encryption_key' # NoKey, NoStr)
                    EXCEPT !.raised = (_encryption_key' = NoKey)]
    /\ UNCHANGED <<vault, files, _storage_instance>>

\* _storage_instance: Optional[SecretStorage] = None
NoInstance == "None"
ProbeOutcomes == {"ok", "set_password", "delete_password"}

\* get_secret_storage, lines 314-339.  probe: the step of the probe that
\* raises, if it runs; fault: what fails in EncryptedFileStorage(), if it is
\* constructed
get_secret_storage(prefer_keyring, probe, fault) ==
    IF _storage_instance # NoInstance
    THEN \* lines 318-319
         /\ slast' = SOutcome("resolve", _storage_instance, "", "", NoMeta,
                              TRUE, NoStr)
         /\ UNCHANGED <<vault, files, key_file, _encryption_key, generated,
                        _storage_instance, selVars>>
    ELSE /\ IF prefer_keyring
            THEN \* lines 322-334
                 /\ probes < MaxProbes
                 /\ probes' = probes + 1
                 /\ test_entry' = IF probe = "set_password" THEN test_entry
                                  ELSE probe = "delete_password"
                 /\ fellback' = (fellback \/ probe # "ok")
                 /\ IF probe = "ok"
                    THEN /\ fault = "none"
                         /\ _storage_instance' = "KeyringStorage"
                         /\ UNCHANGED <<key_file, _encryption_key, generated>>
                    ELSE /\ _get_or_create_key(fault)
                         /\ _storage_instance' =
                               IF _encryption_key' # NoKey
                               THEN "EncryptedFileStorage" ELSE NoInstance
            ELSE \* lines 335-337
                 /\ probe = "ok"
                 /\ _get_or_create_key(fault)
                 /\ _storage_instance' =
                       IF _encryption_key' # NoKey
                       THEN "EncryptedFileStorage" ELSE NoInstance
                 /\ UNCHANGED <<test_entry, probes, fellback>>
         /\ first' = IF first = NoInstance THEN _storage_instance' ELSE first
         /\ slast' = [SOutcome("resolve", _storage_instance', "", "", NoMeta,
                               _storage_instance' # NoInstance, NoStr)
                         EXCEPT !.raised = (_storage_instance' = NoInstance)]
         /\ UNCHANGED <<vault, files>>

\* the backend answers only once it is constructed
Usable == _storage_instance = "KeyringStorage" \/ _encryption_key # NoKey

\* the record the active backend holds for p, and a fault-free get_key(p)
record_held(p) ==
    IF _storage_instance = "KeyringStorage"
    THEN keyring_record(vault, p)
    ELSE file_record(files, _encryption_key, p)
\* storage.get_key(p) on the active backend
active_get_key(p, fault) ==
    IF _storage_instance = "KeyringStorage"
    THEN keyring_get_key(vault, p, fault)
    ELSE file_get_key(files, _encryption_key, p, fault)
stored_key(p) == active_get_key(p, FALSE)
\* storage.has_key(p) on the active backend
active_has_key(p, fault) ==
    IF _storage_instance = "KeyringStorage"
    THEN keyring_has_key(vault, p, fault)
    ELSE file_has_key(files, p)

----------------------------------------------------------------------------
(* The /proxy/* request handlers of app.py *)

Reqs == 1..MaxReqs
\* ProxyConfig.provider: two registry ids and one that is not in the registry
RequestProviders == Providers \cup {"bogus"}

\* kind: the endpoint; pc: "idle", "pending" (suspended at an await), "done";
\* code, pid, rport, ok: the response; spawned: the child its start spawned;
\* with: the requests that were pending while this one was;
\* custom_url: ProxyConfig.custom_url is given (and not empty)
Req(kind, pc, provider, port, custom_url, code, pid, rport, ok, spawned, with) ==
    [kind |-> kind, pc |-> pc, provider |-> provider, port |-> port,
     custom_url |-> custom_url,
     code |-> code, pid |-> pid, rport |-> rport, ok |-> ok,
     spawned |-> spawned, with |-> with]
IdleReq == Req("none", "idle", "", 0, FALSE, 0, 0, 0, FALSE, NoProc, {})

Pending == {r \in Reqs : reqs[r].pc = "pending"}

\* request r of the given kind is accepted and suspends at its first await;
\* the requests already suspended are its concurrent requests
arrive(r, kind, provider, port, custom_url) ==
    [q \in Reqs |->
        IF q = r THEN Req(kind, "pending", provider, port, custom_url,
                          0, 0, 0, FALSE,
                          NoProc, Pending)
        ELSE IF q \in Pending THEN [reqs[q] EXCEPT !.with = @ \cup {r}]
        ELSE reqs[q]]

respond(r, code, pid, rport, ok, spawned) ==
    [reqs EXCEPT ![r] = [@ EXCEPT !.pc = "done", !.code = code, !.pid = pid,
                                  !.rport = rport, !.ok = ok,
                                  !.spawned = spawned]]

start_response_cfg_port(r, out) ==
    IF out.raised \/ out.info = NoInfo
    THEN respond(r, 500, 0, 0, FALSE, out.spawned)
    ELSE respond(r, 200, out.info.pid, reqs[r].port, TRUE, out.spawned)
\* proxy_start, lines 403-407: the response to the outcome of start
start_response(r, out) ==
    IF out.raised \/ out.info = NoInfo
    THEN respond(r, 500, 0, 0, FALSE, out.spawned)
    ELSE respond(r, 200, out.info.pid, out.info.port, TRUE, out.spawned)

\* requests are numbered in the order they arrive
NextToArrive(r) ==
    /\ reqs[r].pc = "idle"
    /\ \A q \in Reqs : q < r => reqs[q].pc # "idle"

\* proxy_start, lines 346-358: up to `await storage.get_key(provider_id)`
proxy_start_begin(r, provider, port, custom_url) ==
    /\ NextToArrive(r)
    /\ reqs' = IF provider \in Providers
               THEN arrive(r, "start", provider, port, custom_url)
               ELSE [reqs EXCEPT ![r] =
                        Req("start", "done", provider, port, custom_url,
                            400, 0, 0, FALSE,
                            NoProc, {})]
    /\ UNCHANGED <<ctlVars, storeVars, selVars, fineVars>>

start_refused_key_only(provider, api_key, custom_url) ==
    ~api_key.some \/ api_key.str = ""
\* proxy_start, lines 359-360 and 383-385: the request is refused with 400
\* (no key, or the custom provider without custom_url)
start_refused(provider, api_key, custom_url) ==
    \/ ~api_key.some \/ api_key.str = ""
    \/ provider = "custom" /\ ~custom_url

\* proxy_start, lines 358-407: from the awaited key to the response
proxy_start_resume(r, env) ==
    /\ reqs[r].pc = "pending"
    /\ reqs[r].kind = "start"
    /\ \E fault \in BOOLEAN :
          LET api_key == active_get_key(reqs[r].provider, fault)
          IN  IF start_refused(reqs[r].provider, api_key, reqs[r].custom_url)
              THEN \* lines 359-360, 383-385
                   /\ reqs' = respond(r, 400, 0, 0, FALSE, NoProc)
                   /\ UNCHANGED ctlVars
              ELSE \* lines 363-407
                   /\ start(env, reqs[r].port)
                   /\ reqs' = start_response(r, last')
    /\ UNCHANGED <<storeVars, selVars, fineVars>>

\* proxy_stop, lines 341-344
proxy_stop_begin(r) ==
    /\ NextToArrive(r)
    /\ reqs' = arrive(r, "stop", "", 0, FALSE)
    /\ UNCHANGED <<ctlVars, storeVars, selVars, fineVars>>

proxy_stop_run(r) ==
    /\ reqs[r].pc = "pending"
    /\ reqs[r].kind = "stop"
    /\ stop
    /\ reqs' = respond(r, 200, 0, 0, last'.flag, NoProc)
    /\ UNCHANGED <<storeVars, selVars, fineVars>>

----------------------------------------------------------------------------
(* The controller driven directly *)

InitCtl ==
    /\ _proc = NoProc
    /\ _info = NoInfo
    /\ alive = {}
    /\ bound = [p \in Ports |-> NoProc]
    /\ spawnPort = [c \in Pids |-> 0]
    /\ sent = {}
    /\ nextPid = 1
    /\ now = 1
    /\ last = NoCall
    /\ returned = NoInfo
    /\ unconfirmed = {}

\* the storage of a daemon that has just resolved its backend:
\* get_secret_storage, lines 314-339, with the probe succeeding or failing
InitStore ==
    /\ vault = [a \in Accounts |-> NoStr]
    /\ files = [p \in Providers |-> NoFile]
    /\ slast = NoSCall
    /\ test_entry = FALSE
    /\ probes = 1
    /\ \/ /\ _storage_instance = "KeyringStorage"
          /\ key_file = NoKey
          /\ _encryption_key = NoKey
          /\ generated = 0
          /\ fellback = FALSE
       \/ /\ _storage_instance = "EncryptedFileStorage"
          /\ key_file = FernetKey(1)
          /\ _encryption_key = FernetKey(1)
          /\ generated = 1
          /\ fellback = TRUE
    /\ first = _storage_instance

NoReqs == [r \in Reqs |-> IdleReq]

\* no start call and no KeyringStorage call is in progress, no child has
\* written anything
InitFine ==
    /\ start_pc = "idle"
    /\ deadline = 0
    /\ pipe = [c \in Pids |-> 0]
    /\ kcalls = [c \in KCallIds |-> IdleCall]

Init == InitCtl /\ InitStore /\ reqs = NoReqs /\ InitFine

Start ==
    \E env \in Envs, port \in Ports :
        start(env, port) /\ UNCHANGED <<reqs, storeVars, selVars, fineVars>>
Stop == stop /\ UNCHANGED <<reqs, storeVars, selVars, fineVars>>
ReadStatus == read_status /\ UNCHANGED <<reqs, storeVars, selVars, fineVars>>
ChildExit == \E c \in Pids : child_exit(c) /\ UNCHANGED <<reqs, storeVars, selVars, fineVars>>

Next == Start \/ Stop \/ ReadStatus \/ ChildExit

Spec == Init /\ [][Next]_vars

----------------------------------------------------------------------------
(* The controller with start taken one polling step at a time.  The handler *)
(* runs without awaiting, so only the children act while it polls.          *)

StartBegin ==
    \E env \in Envs, port \in Ports :
        /\ start_begin(env, port)
        /\ UNCHANGED <<reqs, storeVars, selVars, pipe, kcalls>>
PollConnect ==
    poll_connect /\ UNCHANGED <<reqs, storeVars, selVars, pipe, kcalls>>
PollSleep ==
    poll_sleep /\ UNCHANGED <<reqs, storeVars, selVars, pipe, kcalls>>
PollExpire ==
    \E raises, dies \in BOOLEAN :
        /\ poll_expire(raises, dies)
        /\ UNCHANGED <<reqs, storeVars, selVars, pipe, kcalls>>
ChildListens ==
    \E c \in Pids :
        /\ child_listens(c)
        /\ UNCHANGED <<reqs, storeVars, selVars, pipe, kcalls>>

\* the steps of the start call in progress
PollStep == PollConnect \/ PollSleep \/ PollExpire

NextPoll ==
    StartBegin \/ PollConnect \/ PollSleep \/ PollExpire \/ ChildListens
        \/ ChildExit

\* the storage backend plays no part in start
InitPoll == Init /\ _storage_instance = "EncryptedFileStorage"

SpecPoll == InitPoll /\ [][NextPoll]_vars
\* the handler that called start keeps running
SpecPollFair == SpecPoll /\ WF_vars(PollStep)

----------------------------------------------------------------------------
(* The controller and a child that writes to its stdout and stderr *)

ChildWrites ==
    \E c \in Pids :
        /\ child_writes(c)
        /\ UNCHANGED <<reqs, storeVars, selVars, kcalls>>

NextPipe == Start \/ Stop \/ ChildExit \/ ChildWrites

SpecPipe == Init /\ [][NextPipe]_vars

----------------------------------------------------------------------------
(* Concurrent requests calling KeyringStorage.store_key and delete_key *)

\* the vault is empty when the calls are made
InitRace == Init /\ _storage_instance = "KeyringStorage"

KeyringCallBegin ==
    \E c \in KCallIds, op \in {"store", "delete"}, p \in Providers,
       k \in ApiKeys, m \in Metas :
        /\ op = "delete" => (k = "" /\ m = NoMeta)
        /\ keyring_call_begin(c, op, p, IF op = "store" THEN k ELSE "",
                              IF op = "store" THEN m ELSE NoMeta)
        /\ UNCHANGED <<ctlVars, reqs, selVars, start_pc, deadline, pipe, files,
                   key_file, _encryption_key, generated, _storage_instance,
                   slast>>
KeyringCallMetadata ==
    \E c \in KCallIds :
        /\ keyring_call_metadata(c)
        /\ UNCHANGED <<ctlVars, reqs, selVars, start_pc, deadline, pipe, files,
                   key_file, _encryption_key, generated, _storage_instance,
                   slast>>
KeyringCallApiKey ==
    \E c \in KCallIds :
        /\ keyring_call_api_key(c)
        /\ UNCHANGED <<ctlVars, reqs, selVars, start_pc, deadline, pipe, files,
                   key_file, _encryption_key, generated, _storage_instance,
                   slast>>

NextRace == KeyringCallBegin \/ KeyringCallMetadata \/ KeyringCallApiKey

SpecRace == InitRace /\ [][NextRace]_vars

----------------------------------------------------------------------------
(* The daemon serving concurrent /proxy requests *)

\* a daemon whose backend holds a key for custom and none for openrouter
InitAppStore ==
    /\ slast = NoSCall
    /\ test_entry = FALSE
    /\ probes = 1
    /\ \/ /\ _storage_instance = "KeyringStorage"
          /\ vault = keyring_store([a \in Accounts |-> NoStr],
                                   "custom", "sk-1", NoMeta, "none")
          /\ files = [p \in Providers |-> NoFile]
          /\ key_file = NoKey
          /\ _encryption_key = NoKey
          /\ generated = 0
       \/ /\ _storage_instance = "EncryptedFileStorage"
          /\ vault = [a \in Accounts |-> NoStr]
          /\ files = file_store([p \in Providers |-> NoFile], FernetKey(1),
                                "custom", "sk-1", NoMeta, "none")
          /\ key_file = FernetKey(1)
          /\ _encryption_key = FernetKey(1)
          /\ generated = 1
    /\ fellback = (_storage_instance = "EncryptedFileStorage")
    /\ first = _storage_instance

InitApp == InitCtl /\ InitAppStore /\ reqs = NoReqs /\ InitFine

ProxyStartBegin ==
    \E r \in Reqs, provider \in RequestProviders, port \in Ports,
       custom_url \in BOOLEAN :
        \* custom_url is read for the custom provider only
        /\ provider # "custom" => ~custom_url
        /\ proxy_start_begin(r, provider, port, custom_url)
ProxyStartResume == \E r \in Reqs, env \in Envs : proxy_start_resume(r, env)
ProxyStopBegin == \E r \in Reqs : proxy_stop_begin(r)
ProxyStopRun == \E r \in Reqs : proxy_stop_run(r)

NextApp ==
    ProxyStartBegin \/ ProxyStartResume \/ ProxyStopBegin \/ ProxyStopRun
        \/ ChildExit

SpecApp == InitApp /\ [][NextApp]_vars

----------------------------------------------------------------------------
(* The storage backend driven directly *)

StoreKey ==
    \E p \in Providers, k \in ApiKeys, m \in Metas :
        Usable /\ store_key(_storage_instance, p, k, m) /\ UNCHANGED <<ctlVars, reqs, selVars, fineVars>>
GetKey ==
    \E p \in Providers :
        Usable /\ get_key(_storage_instance, p) /\ UNCHANGED <<ctlVars, reqs, selVars, fineVars>>
HasKey ==
    \E p \in Providers :
        Usable /\ has_key(_storage_instance, p) /\ UNCHANGED <<ctlVars, reqs, selVars, fineVars>>
DeleteKey ==
    \E p \in Providers :
        Usable /\ delete_key(_storage_instance, p) /\ UNCHANGED <<ctlVars, reqs, selVars, fineVars>>
Construct ==
    \E fault \in ConstructFaults : construct(fault) /\ UNCHANGED <<ctlVars, reqs, selVars, fineVars>>
KeyFileDamaged ==
    \E contents \in {NoKey, Garbage} :
        /\ _storage_instance = "EncryptedFileStorage"
        /\ key_file_damaged(contents)
        /\ UNCHANGED <<ctlVars, reqs, selVars, fineVars>>

NextStore ==
    StoreKey \/ GetKey \/ HasKey \/ DeleteKey \/ Construct \/ KeyFileDamaged

SpecStore == Init /\ [][NextStore]_vars

----------------------------------------------------------------------------
(* A daemon process from its first request on: the backend is resolved by   *)
(* the get_storage dependency of each request (app.py, lines 155-156)       *)

\* nothing is stored yet; the storage directory may hold a key file of an
\* earlier run, intact or not
InitSel ==
    /\ InitCtl
    /\ reqs = NoReqs
    /\ vault = [a \in Accounts |-> NoStr]
    /\ files = [p \in Providers |-> NoFile]
    /\ slast = NoSCall
    /\ _storage_instance = NoInstance
    /\ _encryption_key = NoKey
    /\ key_file \in {NoKey, FernetKey(1), Garbage}
    /\ generated = IF key_file = FernetKey(1) THEN 1 ELSE 0
    /\ test_entry = FALSE
    /\ probes = 0
    /\ fellback = FALSE
    /\ first = NoInstance
    /\ InitFine

GetSecretStorage ==
    \E prefer_keyring \in BOOLEAN, probe \in ProbeOutcomes,
       fault \in ConstructFaults :
        /\ get_secret_storage(prefer_keyring, probe, fault)
        /\ UNCHANGED <<ctlVars, reqs, fineVars>>

NextSel == GetSecretStorage \/ GetKey \/ HasKey \/ DeleteKey

SpecSel == InitSel /\ [][NextSel]_vars

----------------------------------------------------------------------------
(* The file backend over a directory whose files can be altered *)

InitFile == Init /\ _storage_instance = "EncryptedFileStorage"

FileAltered ==
    \E p \in Providers, contents \in AlteredContents(key_file) :
        file_altered(p, contents) /\ UNCHANGED <<ctlVars, reqs, selVars, fineVars>>

ListProviders ==
    Usable /\ list_providers(_storage_instance)
           /\ UNCHANGED <<ctlVars, reqs, selVars, fineVars>>

NextFile ==
    StoreKey \/ GetKey \/ HasKey \/ DeleteKey \/ FileAltered \/ ListProviders

SpecFile == InitFile /\ [][NextFile]_vars

----------------------------------------------------------------------------
(* Claims about the controller *)

\* C1: in every reachable state at most one child spawned by the controller
\* is alive.
C1_AtMostOneChildAlive == Cardinality(alive) <= 1

\* C1 as amended: at most one child is alive apart from the children that a
\* stop dropped without confirming their exit (stop returned false).
C1_AtMostOneConfirmedChild == Cardinality(alive \ unconfirmed) <= 1

C1_Witness ==
    /\ Cardinality(alive) = 2
    /\ _proc \in alive
    /\ last.op = "start"
    /\ last.path = "already_running"

\* C2: when start has returned a ProxyProcessInfo and that child is still
\* alive, a further start with no stop in between spawns nothing and returns
\* the identical info (pid, port, started_at).
C2_SecondStartIsNoOp ==
    [][(last'.op = "start" /\ returned # NoInfo /\ returned.pid \in alive)
        => /\ ~last'.raised
           /\ last'.info = returned
           /\ last'.spawned = NoProc
           /\ nextPid' = nextPid
           /\ alive' = alive]_vars

C2_Witness ==
    /\ last.op = "start"
    /\ last.path = "already_running"
    /\ last.info # NoInfo
    /\ last.info.pid \in alive

\* C3: a start whose port never opened raises and leaves the controller Idle:
\* no handle retained, is_running false, the spawned child not alive.
C3_FailedStartLeavesIdle ==
    (last.op = "start" /\ last.path = "timeout")
        => /\ last.raised
           /\ _proc = NoProc
           /\ ~is_running
           /\ last.spawned \notin alive

\* C4: after every return of stop, whichever path it took, the controller
\* holds neither handle nor info: is_running is false and info is absent.
C4_StopAlwaysClears ==
    last.op = "stop"
        => /\ _proc = NoProc
           /\ _info = NoInfo
           /\ ~is_running
           /\ info = NoInfo

C4_Witness ==
    /\ last.op = "stop"
    /\ last.path = "kill_error"
    /\ ~last.flag

\* C5: stop on an Idle controller returns true, sends no signal and leaves
\* the controller state unchanged.
C5_IdleStopIsNoOp ==
    [][(last'.op = "stop" /\ _proc = NoProc)
        => /\ last'.flag
           /\ ~last'.raised
           /\ sent' = sent
           /\ alive' = alive
           /\ _proc' = _proc
           /\ _info' = _info]_vars

C5_Witness ==
    /\ last.op = "stop"
    /\ last.path = "idle"
    /\ nextPid > 1

\* C6: once the supervised child of a Running controller has exited by
\* itself, the next is_running read is false and the next info read absent.
C6_ExitSeenOnNextQuery ==
    (last.op = "status" /\ _proc # NoProc /\ ~poll_is_None(_proc))
        => /\ ~last.flag
           /\ last.info = NoInfo

C6_Witness ==
    /\ last.op = "status"
    /\ _proc # NoProc
    /\ ~poll_is_None(_proc)
    /\ _info # NoInfo
    /\ _info.pid = _proc

\* C7: a visible info describes the child the controller holds: its pid is
\* that live child's pid and its port the port of the start that spawned it.
C7_InfoDescribesHeldChild ==
    info # NoInfo
        => /\ info.pid = _proc
           /\ info.pid \in alive
           /\ info.port = spawnPort[_proc]

----------------------------------------------------------------------------
(* Claims about concurrent /proxy requests *)

\* proxy-start requests r and q were handled concurrently and both called
\* ProxyController.start
RacingStarts(r, q) ==
    /\ r # q
    /\ q \in reqs[r].with
    /\ \A x \in {r, q} :
          reqs[x].kind = "start" /\ reqs[x].pc = "done" /\ reqs[x].code # 400

\* C8: concurrent proxy-start requests are serialized: one child is spawned
\* between them (not two), and the requests that succeed report the same
\* child.
C8_ExactlyOneChildSpawned ==
    \A r, q \in Reqs :
        RacingStarts(r, q)
            => /\ ~(reqs[r].spawned # NoProc /\ reqs[q].spawned # NoProc)
               /\ (reqs[r].code = 200 /\ reqs[q].code = 200)
                     => (reqs[r].pid = reqs[q].pid /\ reqs[r].rport = reqs[q].rport)

\* C8 as amended: a proxy-start request that runs while the child reported
\* by a concurrent, already successful proxy-start request is still held and
\* alive spawns nothing, and if it succeeds it reports that same child.
C8_StartsAreSerialized ==
    [][\A r, q \in Reqs :
          (/\ r # q
           /\ q \in reqs[r].with
           /\ reqs[r].kind = "start" /\ reqs[r].pc = "pending"
           /\ reqs'[r].pc = "done"
           /\ reqs[q].kind = "start" /\ reqs[q].pc = "done"
           /\ reqs[q].code = 200
           /\ reqs[q].pid = _proc /\ _proc \in alive)
            => /\ reqs'[r].spawned = NoProc
               /\ nextPid' = nextPid
               /\ alive' = alive
               /\ reqs'[r].code \in {200, 400}
               /\ reqs'[r].code = 200
                     => (reqs'[r].pid = reqs[q].pid
                         /\ reqs'[r].rport = reqs[q].rport)]_vars

C8_Witness ==
    \E r, q \in Reqs :
        /\ RacingStarts(r, q)
        /\ reqs[r].code = 200 /\ reqs[q].code = 200
        /\ reqs[q].spawned # NoProc /\ reqs[r].spawned = NoProc
        /\ reqs[r].pid = reqs[q].spawned
        /\ reqs[r].port # reqs[q].port

\* a proxy-stop request q raced a proxy-start request r and both completed
StopRacedStart(r, q) ==
    /\ q \in reqs[r].with
    /\ reqs[r].kind = "start" /\ reqs[r].pc = "done" /\ reqs[r].code # 400
    /\ reqs[q].kind = "stop" /\ reqs[q].pc = "done"

\* C9: when a proxy-stop request races a proxy-start request, once both have
\* completed every child still alive is the one the controller's retained
\* handle references.
C9_NoOrphanAfterRace ==
    (Pending = {} /\ \E r, q \in Reqs : StopRacedStart(r, q))
        => \A c \in alive : c = _proc

\* C9 as amended: once both have completed, every child still alive is the
\* one the retained handle references or one that a stop dropped while
\* returning false (its exit was not confirmed).
C9_NoUnreportedOrphanAfterRace ==
    (Pending = {} /\ \E r, q \in Reqs : StopRacedStart(r, q))
        => \A c \in alive : c = _proc \/ c \in unconfirmed

C9_Witness ==
    /\ Pending = {}
    /\ \E r, q \in Reqs :
          /\ StopRacedStart(r, q)
          /\ reqs[r].spawned # NoProc
          /\ reqs[r].spawned \notin alive
          /\ reqs[q].ok
          /\ <<reqs[r].spawned, "KILL">> \in sent

----------------------------------------------------------------------------
(* Claims about the storage backends *)

\* C10: on both backends, once store_key(p, k, m) has returned true the
\* record held for p is exactly {api_key: k, metadata: m} and get_key(p)
\* returns k.
C10_StoreThenGet ==
    (slast.op = "store" /\ slast.ok)
        => /\ record_held(slast.provider) =
                 [api_key |-> Str(slast.api_key),
                  metadata |-> IF slast.metadata.some THEN slast.metadata.dict
                               ELSE {}]
           /\ stored_key(slast.provider) = Str(slast.api_key)

\* C11: on both backends, once delete_key(p) on a stored provider p has
\* returned true, get_key(p) returns absent and has_key(p) false, and they
\* stay so until store_key(p, ...) is called again.
C11_DeleteThenAbsent ==
    [][\A p \in Providers :
          /\ (/\ slast'.op = "delete" /\ slast'.provider = p /\ slast'.ok
               /\ active_has_key(p, FALSE))
                => (stored_key(p)' = NoStr /\ ~active_has_key(p, FALSE)')
          /\ (/\ stored_key(p) = NoStr /\ ~active_has_key(p, FALSE)
               /\ ~(slast'.op = "store" /\ slast'.provider = p))
                => (stored_key(p)' = NoStr /\ ~active_has_key(p, FALSE)')]_vars

C11_Witness ==
    /\ slast.op = "delete"
    /\ slast.backend = "EncryptedFileStorage"
    /\ slast.ok
    /\ slast.value.some
    /\ stored_key(slast.provider) = NoStr

\* C12: on both backends delete_key(p) for a provider p that is not stored
\* returns true and raises nothing.
C12_DeleteOfMissingSucceeds ==
    [][(slast'.op = "delete" /\ ~active_has_key(slast'.provider, FALSE))
        => (slast'.ok /\ ~slast'.raised)]_vars

C14_ProbeFailureSelectsFile ==
    (slast.op = "resolve" /\ fellback /\ ~slast.raised)
        => (/\ slast.backend = "EncryptedFileStorage"
            /\ _storage_instance = "EncryptedFileStorage")

\* C15: the credential-store probe runs at most once in a process, and all
\* get_secret_storage calls that return return the same backend instance.
C15_ResolvedOnce ==
    /\ probes <= 1
    /\ (slast.op = "resolve" /\ ~slast.raised)
          => (slast.backend = first /\ _storage_instance = first)

\* C16: no store_key, get_key or delete_key call on either backend raises
\* to its caller; a failed call returns false (store, delete) or absent
\* (get).
C16_NoStorageCallRaises ==
    slast.op \in {"store", "get", "delete"} => ~slast.raised

C16_Witness ==
    /\ slast.op = "store"
    /\ slast.backend = "EncryptedFileStorage"
    /\ ~ValidKey(_encryption_key)
    /\ ~slast.ok
    /\ ~slast.raised

\* C17: constructing EncryptedFileStorage raises whenever the key file is
\* corrupted, unreadable or cannot be created: a backend that was
\* constructed holds valid key material.
C17_ConstructedKeyIsUsable ==
    (slast.op = "construct" /\ ~slast.raised) => ValidKey(_encryption_key)

\* C18: re-storing a provider overwrites its whole record on both backends:
\* after store_key(p, k2, m2) has returned true for a provider that was
\* stored, the record held for p is exactly {k2, m2}.
C18_RestoreOverwritesRecord ==
    [][\A p \in Providers :
          (/\ slast'.op = "store" /\ slast'.provider = p /\ slast'.ok
           /\ active_has_key(p, FALSE))
            => record_held(p)' =
                  [api_key |-> Str(slast'.api_key),
                   metadata |-> IF slast'.metadata.some
                                THEN slast'.metadata.dict ELSE {}]]_vars

C20_OneKeyPerDirectory ==
    [][/\ generated' # generated => key_file = NoKey
       /\ (key_file # NoKey /\ slast'.op # "none") => key_file' = key_file
       /\ (slast'.op = "construct" /\ ~slast'.raised /\ key_file # NoKey)
             => /\ _encryption_key' = key_file
                /\ \A p \in Providers :
                      (files[p].exists /\ files[p].mac = key_file)
                        => file_get_key(files', _encryption_key', p, FALSE)
                             = Str(files[p].plain.api_key)]_vars

C20_Witness ==
    /\ slast.op = "construct"
    /\ ~slast.raised
    /\ generated = 1
    /\ \E p \in Providers : stored_key(p).some /\ files[p].mac = key_file

\* C21: stop on a held child force-kills only a child that did not exit on
\* the graceful termination, and returns true only when the child is
\* confirmed exited: a graceful exit returns true, a child left running
\* returns false.
C21_StopEscalatesAndReports ==
    [][(last'.op = "stop" /\ _proc # NoProc)
        => /\ <<_proc, "KILL">> \in sent'
                => (last'.path = "killed" /\ _proc \in alive)
           /\ last'.path \in {"already_exited", "graceful"}
                => (last'.flag /\ <<_proc, "KILL">> \notin sent')
           /\ last'.flag => _proc \notin alive'
           /\ ~last'.raised]_vars

C21_Witness ==
    /\ last.op = "stop"
    /\ last.path = "killed"
    /\ last.flag
    /\ \E c \in Pids : {<<c, "TERM">>, <<c, "KILL">>} \subseteq sent

\* C22: every start call terminates: one that spawned a child polls until a
\* connect succeeds or the deadline passes and then returns or raises; a
\* call spawns at most one child, and none while polling or on failure.
C22_StartTerminates ==
    /\ (start_pc = "polling") ~> (start_pc = "idle")
    /\ [][/\ nextPid' <= nextPid + 1
          /\ start_pc = "polling" => (nextPid' = nextPid /\ _proc' = _proc)
          /\ (start_pc = "polling" /\ start_pc' = "idle")
                => (/\ last'.op = "start"
                    /\ last'.spawned = _proc
                    /\ last'.raised <=> last'.info = NoInfo
                    /\ last'.raised <=> ~time_left)]_vars

C22_Witness ==
    /\ start_pc = "idle"
    /\ last.op = "start"
    /\ last.path = "timeout"
    /\ now >= deadline
    /\ nextPid = 2

\* C23: the capture of the child's stdout and stderr never makes the child
\* block: a running child can always do its next write.
C23_ChildNeverBlocksOnPipe ==
    \A c \in alive : pipe[c] < PipeCapacity

C25_StartNeedsKeyAndUrl ==
    [][\A r \in Reqs :
          (reqs'[r].kind = "start" /\ reqs[r].pc # "done" /\ reqs'[r].pc = "done")
            => LET cfg == reqs'[r]
                   refused ==
                       \/ cfg.provider \notin Providers
                       \/ ~stored_key(cfg.provider).some
                       \/ stored_key(cfg.provider).str = ""
                       \/ cfg.provider = "custom" /\ ~cfg.custom_url
               IN  /\ refused => (/\ cfg.code = 400
                                   /\ cfg.spawned = NoProc
                                   /\ UNCHANGED ctlVars)
                   /\ cfg.code # 400 => ~refused]_vars

C25_Witness ==
    \E r \in Reqs :
        /\ reqs[r].kind = "start" /\ reqs[r].pc = "done"
        /\ reqs[r].provider = "custom" /\ ~reqs[r].custom_url
        /\ stored_key("custom").some
        /\ reqs[r].code = 400
        /\ \E q \in Reqs : reqs[q].kind = "start" /\ reqs[q].code = 200

\* C26: whenever start returns a ProxyProcessInfo after spawning, the child
\* it spawned is alive at that moment and the controller is Running.
C26_StartedChildIsAlive ==
    (last.op = "start" /\ last.path = "started")
        => (last.spawned \in alive /\ is_running)

\* C27: in every reachable controller state, is_running implies that info
\* is present, so the already-running path of start returns an info.
C27_RunningImpliesInfo ==
    /\ is_running => info # NoInfo
    /\ (last.op = "start" /\ last.path = "already_running")
          => last.info # NoInfo

\* C28: on each backend has_key(p) is true exactly when get_key(p) returns
\* a key, in every reachable storage state.
C28_HasIffGet ==
    \A p \in Providers : active_has_key(p, FALSE) <=> stored_key(p).some

\* C29: store_key and delete_key on provider p leave get_key(q) and
\* has_key(q) unchanged for every other provider q, whether they succeed
\* or fail.
C29_OtherProvidersUntouched ==
    [][\A q \in Providers :
          (slast'.op \in {"store", "delete"} /\ slast'.provider # q)
            => /\ stored_key(q)' = stored_key(q)
               /\ active_has_key(q, FALSE)' = active_has_key(q, FALSE)
               /\ record_held(q)' = record_held(q)]_vars

C29_Witness ==
    /\ slast.op = "store"
    /\ slast.ok
    /\ \E q \in Providers \ {slast.provider} :
          /\ stored_key(q).some
          /\ stored_key(q).str # slast.api_key
          /\ record_held(q).metadata # {}

\* the vaults that running the calls of S one after the other, in some
\* order, leaves from vault v
RECURSIVE SerialResults(_, _)
SerialResults(S, v) ==
    IF S = {} THEN {v}
    ELSE UNION {SerialResults(S \ {c}, keyring_call_alone(v, kcalls[c])) :
                  c \in S}

\* C30: concurrent KeyringStorage store_key and delete_key calls on one
\* provider are atomic with respect to each other: when they have all
\* returned, the vault is what running them in some serial order leaves.
C30_KeyringCallsSerializable ==
    (/\ \A c \in KCallIds : kcalls[c].pc = "done"
     /\ \A c, d \in KCallIds : kcalls[c].provider = kcalls[d].provider)
        => vault \in SerialResults(KCallIds, [a \in Accounts |-> NoStr])

\* C31: a store_key or delete_key call that returns False changes nothing:
\* on both backends the api key and the metadata held for the provider are
\* the same after the failed call as before it.
C31_FailedCallChangesNothing ==
    [][(/\ slast'.op \in {"store", "delete"}
        /\ ~slast'.raised
        /\ ~slast'.ok)
          => \A p \in Providers :
                slast'.provider = p => record_held(p)' = record_held(p)]_vars

====
